---- MODULE Spec2Model ----
(***************************************************************************)
(* A model of the photo processor of src/app.py: build_zip_and_missing     *)
(* (lines 492-598) with the helpers it calls (_extract_id_cnk,             *)
(* _extract_photos, _download_image, _to_1000_canvas, _jpeg_bytes,         *)
(* _hash_bytes) and the try/except of the caller (lines 670-676).          *)
(*                                                                         *)
(* Text is a sequence of one-character strings, so that str.replace,       *)
(* str.strip, str.lower and the f-string of the filename are computed.     *)
(* The progress bar (lines 541-544 and its copies) only displays and is    *)
(* left out.                                                               *)
(***************************************************************************)
EXTENDS Integers, Sequences, FiniteSets, TLC

\* Longest photo sheet explored.
MaxPhotos == 3

----------------------------------------------------------------------------
(* Cells of the workbook.                                                  *)

\* An empty spreadsheet cell, as pandas reads it (NaN).
NaNCell == <<"<NaN>">>

\* dict.get() finding nothing.
None == <<"<None>">>

\* A Product ID / ID cell holding text that int() rejects.
TextId == -1

\* An empty Product ID / Photo ID cell (NaN in a numeric column).
NaNId == -2

\* fillna(10**9): the rank of a missing or non-numeric Photo ID.
NoPhotoIdRank == 1000000000

\* _rank_type: the rank of an unknown or non-text type label.
UnknownTypeRank == 99

Whitespace == {" ", "\t"}

\* Mutant: the digits of the text are kept and everything else dropped.
RemoveSpaces_KeepDigits(s) ==
    SelectSeq(s, LAMBDA c : c \in {"0", "1", "2", "3", "4", "5", "6", "7", "8", "9"})

RECURSIVE RemoveSpaces(_)
\* str.replace(" ", ""): every space character is removed, nothing else.
RemoveSpaces(s) ==
    IF s = <<>> THEN <<>>
    ELSE IF Head(s) = " " THEN RemoveSpaces(Tail(s))
    ELSE <<Head(s)>> \o RemoveSpaces(Tail(s))

RECURSIVE LStrip(_)
LStrip(s) ==
    IF s = <<>> THEN <<>>
    ELSE IF Head(s) \in Whitespace THEN LStrip(Tail(s))
    ELSE s

RECURSIVE RStrip(_)
RStrip(s) ==
    IF s = <<>> THEN <<>>
    ELSE IF s[Len(s)] \in Whitespace THEN RStrip(SubSeq(s, 1, Len(s) - 1))
    ELSE s

\* str.strip(): leading and trailing whitespace is removed.
Strip(s) == RStrip(LStrip(s))

LowerChar(c) ==
    CASE c = "N" -> "n"
      [] c = "A" -> "a"
      [] c = "O" -> "o"
      [] c = "E" -> "e"
      [] c = "B" -> "b"
      [] OTHER -> c

\* str.lower()
Lower(s) == [i \in 1..Len(s) |-> LowerChar(s[i])]

\* str(x) / astype(str) of a cell: NaN prints as "nan".
AsStr(cell) == IF cell = NaNCell THEN <<"n", "a", "n">> ELSE cell

DigitChar(d) ==
    CASE d = 0 -> "0" [] d = 1 -> "1" [] d = 2 -> "2" [] d = 3 -> "3"
      [] d = 4 -> "4" [] d = 5 -> "5" [] d = 6 -> "6" [] d = 7 -> "7"
      [] d = 8 -> "8" [] d = 9 -> "9"

RECURSIVE Digits(_)
\* The decimal text of a natural number, as an f-string prints it.
Digits(n) ==
    IF n < 10 THEN <<DigitChar(n)>>
    ELSE Digits(n \div 10) \o <<DigitChar(n % 10)>>

----------------------------------------------------------------------------
(* The web the image URLs point to, and the picture pipeline.              *)

\* URL cells of the photo sheet.  The text of a real URL is abbreviated to
\* the name of the file it serves.
UrlPngA    == <<"a", "1">>
UrlBmpA    == <<"a", "2">>
UrlRecompA == <<"a", "3">>
UrlB       == <<"b">>
UrlTimeout == <<"t">>
Url500     == <<"s">>
UrlEmpty   == <<"e">>
UrlJunk    == <<"j">>
UrlOdd     == <<"o">>
UrlBlank   == <<" ">>
UrlNone    == <<"N", "o", "n", "e">>

\* requests.get(url, timeout=15): what each URL answers.  status "raise" is
\* a RequestException (connection error, timeout); body 0 is an empty body.
\* Bodies 1..3 show the same picture A: 1 and 2 are the same pixels in two
\* lossless containers, 3 is a recompressed copy (a few pixels differ).
\* Body 4 is another picture, body 8 is no image at all, and body 9 decodes
\* but cannot be put on the canvas.
Web(url) ==
    CASE url = UrlPngA    -> [status |-> "200", body |-> 1]
      [] url = UrlBmpA    -> [status |-> "200", body |-> 2]
      [] url = UrlRecompA -> [status |-> "200", body |-> 3]
      [] url = UrlB       -> [status |-> "200", body |-> 4]
      [] url = UrlTimeout -> [status |-> "raise", body |-> 0]
      [] url = Url500     -> [status |-> "500", body |-> 8]
      [] url = UrlEmpty   -> [status |-> "200", body |-> 0]
      [] url = UrlJunk    -> [status |-> "200", body |-> 8]
      [] url = UrlOdd     -> [status |-> "200", body |-> 9]
      [] OTHER            -> [status |-> "raise", body |-> 0]

\* Image.open(...) / img.load(): the bodies PIL decodes.
Decodable == {1, 2, 3, 4, 9}

\* The value _download_image returns for "no image".
NoImage == 0

\* _download_image: the decoded image, or NoImage.  Every exception, of the
\* request and of the decoder alike, is swallowed into NoImage.
DownloadImage(url) ==
    LET r == Web(url)
    IN  IF r.status = "raise" THEN NoImage
        ELSE IF r.status # "200" \/ r.body = 0 THEN NoImage
        ELSE IF r.body \notin Decodable THEN NoImage
        ELSE r.body

\* The images on which _to_1000_canvas or _jpeg_bytes raises (a mode PIL
\* cannot convert, a side that contain() scales to zero, no memory).
CanvasRaises(img) == img = 9

\* _to_1000_canvas: the pixels of the 1000x1000 canvas.  The container does
\* not matter, so images 1 and 2 give the same canvas.
To1000Canvas(img) ==
    CASE img = 1 -> 10
      [] img = 2 -> 10
      [] img = 3 -> 11
      [] img = 4 -> 12

\* _jpeg_bytes: the encoder is deterministic, one byte string per canvas.
JpegBytes(canvas) == 100 + canvas

\* _hash_bytes: the MD5 digest of the encoded bytes.
HashBytes(jb) == (jb * 7 + 3) % 128

\* The processed JPEG of a decoded image and its content hash.
ProcessedBytes(img) == JpegBytes(To1000Canvas(img))

----------------------------------------------------------------------------
(* Reading the workbook.                                                   *)

\* TYPE_RANK: the priority of the known type labels.
TYPE_RANK ==
    [t \in {"photo du produit", "productfoto", "photo de l'emballage",
            "verpakkingsfoto", "photo promotionnelle", "sfeerbeeld"} |->
        CASE t \in {"photo du produit", "productfoto"} -> 1
          [] t \in {"photo de l'emballage", "verpakkingsfoto"} -> 2
          [] t \in {"photo promotionnelle", "sfeerbeeld"} -> 3]

\* An empty Type cell (NaN, not text).
NaNType == "<NaN>"

\* t.strip().lower() on the labels of the sheets explored.
StripLowerLabel(t) ==
    CASE t = " Productfoto " -> "productfoto"
      [] t = "VERPAKKINGSFOTO" -> "verpakkingsfoto"
      [] OTHER -> t

\* _rank_type
RankType(t) ==
    IF t = NaNType THEN UnknownTypeRank
    ELSE IF StripLowerLabel(t) \in DOMAIN TYPE_RANK
         THEN TYPE_RANK[StripLowerLabel(t)]
         ELSE UnknownTypeRank

\* int(cell) succeeds: the cell is a number, or text that spells one.
CanInt(cell) == cell >= 0

\* Mutant: only the ID header is looked for.
ProductsSchemaError_IdOnly(b) == ~("id" \in b.productHeaders)

\* _extract_id_cnk raises: the first sheet lacks ID or both CNK headers.
\* Headers are compared stripped and lower-cased.
ProductsSchemaError(b) ==
    ~("id" \in b.productHeaders
      /\ ({"cnk code", "code cnk"} \cap b.productHeaders) # {})

\* _read_book and _extract_photos raise: no photo sheet with the Product ID
\* and 900x900 headers.
PhotosSchemaError(b) ==
    ~({"product id", "900x900"} \subseteq b.photoHeaders)

\* _extract_id_cnk: the CNK column as text, spaces removed, stripped.
ExtractCnk(cell) == Strip(RemoveSpaces(AsStr(cell)))

RECURSIVE BuildId2Cnk(_, _)
\* Lines 499-505: rows whose ID is no integer are skipped, a later row of
\* the same ID replaces the earlier one.
BuildId2Cnk(rows, acc) ==
    IF rows = <<>> THEN acc
    ELSE LET row == Head(rows)
             pid == row.ID
             cnk == Strip(AsStr(ExtractCnk(row.CNK)))
         IN  IF ~CanInt(pid) THEN BuildId2Cnk(Tail(rows), acc)
             ELSE BuildId2Cnk(Tail(rows),
                      [k \in (DOMAIN acc) \cup {pid} |->
                          IF k = pid THEN cnk ELSE acc[k]])

\* An empty function: the empty dict.
EmptyDict == [k \in {} |-> 0]

\* dict.get(key)
Get(d, k) == IF k \in DOMAIN d THEN d[k] ELSE None

\* "not cnk": None and the empty string are falsy.
Falsy(cnk) == cnk = None \/ cnk = <<>>

\* dropna(subset=["URL"])
DropNaUrl(rows) == SelectSeq(rows, LAMBDA r : r.url # NaNCell)

\* Lines 514-515: the two rank columns of a row.
RankPhotoId(cell) == IF cell >= 0 THEN cell ELSE NoPhotoIdRank

\* The position of a Product ID cell in the sorted column: the lexsort orders
\* numbers by value, puts text behind them and empty cells last.
PidOrder(cell) ==
    IF cell >= 0 THEN <<0, cell>> ELSE IF cell = TextId THEN <<1, 0>> ELSE <<2, 0>>

\* The sort key of sort_values(["Product ID", "rank_type", "rank_photoid"]).
SortKey(r) ==
    <<PidOrder(r.pid)[1], PidOrder(r.pid)[2], RankType(r.type), RankPhotoId(r.photoid)>>

RECURSIVE LexLess(_, _)
LexLess(a, b) ==
    IF a = <<>> THEN FALSE
    ELSE IF Head(a) # Head(b) THEN Head(a) < Head(b)
    ELSE LexLess(Tail(a), Tail(b))

RECURSIVE InsertSorted_BeforeEqual(_, _)
\* Mutant: x goes before the rows of equal key; the sort is not stable.
InsertSorted_BeforeEqual(sorted, x) ==
    IF sorted = <<>> THEN <<x>>
    ELSE IF ~LexLess(SortKey(Head(sorted)), SortKey(x))
         THEN <<x>> \o sorted
         ELSE <<Head(sorted)>> \o InsertSorted_BeforeEqual(Tail(sorted), x)

RECURSIVE InsertSorted(_, _)
\* x goes behind every row whose key is not greater: the sort is stable.
InsertSorted(sorted, x) ==
    IF sorted = <<>> THEN <<x>>
    ELSE IF LexLess(SortKey(x), SortKey(Head(sorted)))
         THEN <<x>> \o sorted
         ELSE <<Head(sorted)>> \o InsertSorted(Tail(sorted), x)

\* Mutant: the frame is left in sheet order.
SortPhotos_SheetOrder(rows, acc) == acc \o rows

RECURSIVE SortPhotos(_, _)
\* photos.sort_values(...): a lexsort over the three columns.
SortPhotos(rows, acc) ==
    IF rows = <<>> THEN acc
    ELSE SortPhotos(Tail(rows), InsertSorted(acc, Head(rows)))

\* Lines 443-445 and 513-516: the photo frame the loop iterates over.
RankedPhotos(b) ==
    LET cols(i) == [idx |-> i, pid |-> b.photos[i].pid, url |-> b.photos[i].url,
                    type |-> IF "type" \in b.photoHeaders
                             THEN b.photos[i].type ELSE "",
                    photoid |-> IF "photo id" \in b.photoHeaders
                                THEN b.photos[i].photoid ELSE NaNId]
        frame == [i \in 1..Len(b.photos) |-> cols(i)]
    IN  SortPhotos(DropNaUrl(frame), <<>>)

\* Line 582: f"BE0{cnk}-{lang}-h{n}.jpg"
Filename(cnk, lang, n) ==
    <<"B", "E", "0">> \o cnk \o <<"-">> \o lang \o <<"-", "h">> \o Digits(n)
        \o <<".", "j", "p", "g">>

----------------------------------------------------------------------------
(* parse_skus: the identifiers of the textarea and of the uploaded sheet.  *)

\* Most tokens of a textarea and most cells of a sku column explored.
MaxTokens == 3
MaxCells == 2

\* str.replace(",", " ")
ReplaceCommas(s) == [i \in 1..Len(s) |-> IF s[i] = "," THEN " " ELSE s[i]]

RECURSIVE SplitFrom(_, _, _)
\* str.split(): the maximal runs of characters that are no whitespace.
\* cur is the run being read, out the runs read so far.
SplitFrom(s, cur, out) ==
    IF s = <<>> THEN (IF cur = <<>> THEN out ELSE Append(out, cur))
    ELSE IF Head(s) \in Whitespace
         THEN SplitFrom(Tail(s), <<>>, IF cur = <<>> THEN out ELSE Append(out, cur))
         ELSE SplitFrom(Tail(s), Append(cur, Head(s)), out)

Split(s) == SplitFrom(s, <<>>, <<>>)

\* Lines 360-362: the tokens of the textarea, stripped, the empty ones left out.
TextSkus(text) ==
    IF text = <<>> THEN <<>>
    ELSE LET raw == Split(ReplaceCommas(text))
             stripped == [i \in 1..Len(raw) |-> Strip(raw[i])]
         IN  SelectSeq(stripped, LAMBDA x : x # <<>>)

\* uploaded_file: None, a file pandas cannot read as a workbook, or a
\* workbook with its lower-cased headers and the cells of its sku column.
NoUpload == [kind |-> "none"]
Unreadable == [kind |-> "unreadable"]
Sheet(columns, cells) == [kind |-> "sheet", columns |-> columns, sku |-> cells]

\* Lines 371-372: the cells of the sku column as text, stripped, the empty
\* ones left out.  astype(str) turns an empty cell into "nan".
ExcelSkus(cells) ==
    LET stripped == [i \in 1..Len(cells) |-> Strip(AsStr(cells[i]))]
    IN  SelectSeq(stripped, LAMBDA x : x # <<>>)

\* Mutant: the list is returned as merged, repeats included.
DedupFirstSeen_Off(list) == list

RECURSIVE DedupFrom(_, _, _)
DedupFrom(list, seen, out) ==
    IF list = <<>> THEN out
    ELSE IF Head(list) \in seen THEN DedupFrom(Tail(list), seen, out)
    ELSE DedupFrom(Tail(list), seen \cup {Head(list)}, Append(out, Head(list)))

\* Lines 377-383: each text once, at the place of its first occurrence.
DedupFirstSeen(list) == DedupFrom(list, {}, <<>>)

\* parse_skus.  A workbook whose header row has no "sku" (compared in
\* lower case) and a file that cannot be read both give the empty list.
ParseSkus(text, up, dedup) ==
    LET fromText == TextSkus(text)
    IN  IF up.kind = "unreadable" THEN <<>>
        ELSE IF up.kind = "sheet" /\ "sku" \notin up.columns THEN <<>>
        ELSE LET merged == IF up.kind = "none" THEN fromText
                           ELSE fromText \o ExcelSkus(up.sku)
             IN  IF dedup THEN DedupFirstSeen(merged) ELSE merged

----------------------------------------------------------------------------
(* The run of build_zip_and_missing for one language.                      *)

VARIABLES
    book,          \* the exported workbook (xlsx_bytes), read-only
    lang,          \* the language tag of the run
    pc,            \* "Idle", "Loop", "Done" or "Failed"
    error,         \* the exception that ended a failed run, "" otherwise
    id2cnk,        \* Product ID -> CNK
    photos,        \* the ranked photo frame
    attempted,     \* rows taken from the frame so far
    saved,         \* images written to the archive
    missing_rows,  \* the missing log
    cnk_hashes,    \* CNK -> set of accepted hashes
    cnk_counts,    \* CNK -> running counter
    zf,            \* the entries of the archive, in writing order
    ret,           \* the value returned to the caller, None until then
    src,           \* history: for each archive entry, its row of the frame
    stages         \* history: the stages the run has entered, in order

runVars == <<book, lang, pc, error, id2cnk, photos, attempted, saved,
             missing_rows, cnk_hashes, cnk_counts, zf, ret, src, stages>>

\* st.session_state and the locals of the script around the runs.
VARIABLES
    exports,        \* session_state["exports"]: language -> workbook
    last_refs,      \* session_state["last_refs"]
    photo_outputs,  \* session_state["photo_outputs"]: key -> archive
    missing_excels, \* session_state["missing_excels"]: key -> report
    ui,             \* where the script is: "Ready", "Passes" or "Pass"
    total_langs,    \* the languages the loop of line 667 has still to take
    lang_zips,      \* the archives of the passes of this click
    lang_missing,   \* the missing reports of the passes of this click
    origin          \* history: the workbook each stored archive was built from

sessionVars == <<exports, last_refs, photo_outputs, missing_excels, ui,
                 total_langs, lang_zips, lang_missing, origin>>

\* One call of parse_skus.
VARIABLES
    sku_tokens,     \* what the user typed: the tokens and the separator
    sku_text,       \* the text of the textarea
    uploaded_file,  \* the uploaded workbook, None without one
    dedup_on,       \* the "remove duplicates" checkbox
    skus,           \* the list returned, empty before the call
    sku_pc          \* "idle" (no call), "called" or "returned"

skuVars == <<sku_tokens, sku_text, uploaded_file, dedup_on, skus, sku_pc>>

\* One MedipimAPI object and the calls of its methods.
VARIABLES
    logged_in,      \* self.logged_in
    api_pc,         \* the statement the running method is at, "idle" if none
    api_method,     \* the method running or last run
    api_reqs,       \* the requests the method has issued, with logged_in then
    api_ret,        \* what the last method returned
    api_calls,      \* the number of method calls made so far
    post_left,      \* login: resp_post.ok and "/login" not in resp_post.url
    api_entry,      \* history: self.logged_in when the method was called
    login_ret       \* history: how login() ended in this call, "none" if not called

apiVars == <<logged_in, api_pc, api_method, api_reqs, api_ret, api_calls,
             post_left, api_entry, login_ret>>

vars == <<runVars, sessionVars, skuVars, apiVars>>

\* What a run of build_zip_and_missing does not touch.
elsewhere == <<sessionVars, skuVars, apiVars>>

\* Sequences over S of length at most n.
SeqsUpTo(S, n) == UNION {[1..k -> S] : k \in 0..n}

ProductHeadersOk == {"id", "cnk code"}
PhotoHeadersOk == {"product id", "900x900", "type", "photo id"}

LangNl == <<"n", "l">>
LangFr == <<"f", "r">>
Langs == {LangNl, LangFr}

\* Workbooks about duplicates: two products whose code cells are spellings
\* of one code (or not), photos that all download.
DedupCells == {<<"7">>, <<"0", "7">>, <<"7", " ">>, <<"B", "7">>}
DedupTables ==
    {<<[ID |-> 1, CNK |-> <<"7">>], [ID |-> 2, CNK |-> c]>> : c \in DedupCells}
DedupRows ==
    [pid : {1}, url : {UrlPngA, UrlRecompA},
     type : {"productfoto", "verpakkingsfoto"}, photoid : {1}]
     \cup
    [pid : {1}, url : {UrlPngA}, type : {"productfoto"}, photoid : {2}]
     \cup
    [pid : {1}, url : {UrlBmpA}, type : {"productfoto"}, photoid : {1}]
     \cup
    [pid : {2}, url : {UrlPngA, UrlBmpA, UrlB},
     type : {"productfoto"}, photoid : {1}]
DedupBooks ==
    [productHeaders : {ProductHeadersOk}, photoHeaders : {PhotoHeadersOk},
     products : DedupTables, photos : SeqsUpTo(DedupRows, MaxPhotos)]

\* Workbooks about failures: products without a code, photo rows that
\* cannot be mapped, fetched, decoded or drawn.
FailureTables ==
    {<<[ID |-> 1, CNK |-> c]>> : c \in {<<"7">>, NaNCell, <<" ">>}}
    \cup {<<[ID |-> 1, CNK |-> <<"7">>], [ID |-> 1, CNK |-> NaNCell]>>}
FailureRows ==
    [pid : {1},
     url : {UrlPngA, UrlTimeout, Url500, UrlEmpty, UrlJunk, UrlOdd},
     type : {"productfoto"}, photoid : {1}]
     \cup
    [pid : {TextId}, url : {UrlPngA},
     type : {"productfoto"}, photoid : {1}]
     \cup
    [pid : {2}, url : {UrlPngA}, type : {"productfoto"}, photoid : {1}]
FailureBooks ==
    [productHeaders : {ProductHeadersOk}, photoHeaders : {PhotoHeadersOk},
     products : FailureTables, photos : SeqsUpTo(FailureRows, MaxPhotos)]

\* Workbooks about the sheets: headers present or not, cells left empty.
SheetTables ==
    {<<[ID |-> 1, CNK |-> <<"7">>]>>,
     <<[ID |-> TextId, CNK |-> <<"8">>], [ID |-> 1, CNK |-> <<"7">>]>>,
     <<[ID |-> NaNId, CNK |-> <<"8">>]>>}
SheetRows ==
    [pid : {1, NaNId}, url : {UrlB, UrlBlank, UrlNone, NaNCell},
     type : {" Productfoto "}, photoid : {NaNId}]
     \cup
    [pid : {1}, url : {UrlB}, type : {"video", NaNType}, photoid : {1}]
SheetBooks ==
    [productHeaders : SUBSET {"id", "cnk code", "code cnk"},
     photoHeaders : SUBSET PhotoHeadersOk,
     products : SheetTables,
     photos : SeqsUpTo(SheetRows, 1)]

\* Workbooks about the ranking: two products, labels known, unknown and
\* empty, sequence numbers present, missing and above the rank of a missing
\* one, rows that share their whole key, a row without URL.
RankTable == <<[ID |-> 1, CNK |-> <<"7">>], [ID |-> 2, CNK |-> <<"8">>]>>
RankRows ==
    [pid : {1}, url : {UrlPngA, UrlB}, type : {"productfoto"}, photoid : {1}]
     \cup
    [pid : {1}, url : {UrlPngA}, type : {"productfoto"},
     photoid : {NaNId, NoPhotoIdRank + 1}]
     \cup
    [pid : {1}, url : {UrlB}, type : {"video", NaNType, "VERPAKKINGSFOTO"},
     photoid : {1}]
     \cup
    [pid : {2}, url : {UrlB}, type : {"productfoto"}, photoid : {2, NaNId}]
     \cup
    [pid : {1}, url : {NaNCell}, type : {"productfoto"}, photoid : {1}]
RankBooks ==
    [productHeaders : {ProductHeadersOk}, photoHeaders : {PhotoHeadersOk},
     products : {RankTable}, photos : SeqsUpTo(RankRows, MaxPhotos)]

\* One-row workbooks of the other kinds, so that every step of a run
\* occurs next to the ranking workbooks.
OneRowBooks ==
    {b \in FailureBooks \cup SheetBooks :
        Len(b.photos) = 1 /\ b.products = <<[ID |-> 1, CNK |-> <<"7">>]>>}

RankRuns == (RankBooks \cup OneRowBooks) \X {LangNl}

\* Lines 29-36: the session state of a new session, no click under way.
SessionStart ==
    /\ exports = EmptyDict
    /\ last_refs = <<>>
    /\ photo_outputs = EmptyDict
    /\ missing_excels = EmptyDict
    /\ ui = "Ready"
    /\ total_langs = <<>>
    /\ lang_zips = EmptyDict
    /\ lang_missing = EmptyDict
    /\ origin = EmptyDict

\* No call of parse_skus.
NoSkuCall ==
    /\ sku_tokens = <<>>
    /\ sku_text = <<>>
    /\ uploaded_file = NoUpload
    /\ dedup_on = TRUE
    /\ skus = <<>>
    /\ sku_pc = "idle"

\* MedipimAPI.__init__: a new object, no method called yet.
ApiStart ==
    /\ logged_in = FALSE
    /\ api_pc = "idle"
    /\ api_method = "none"
    /\ api_reqs = <<>>
    /\ api_ret = <<"no return">>
    /\ api_calls = 0
    /\ post_left = FALSE
    /\ api_entry = FALSE
    /\ login_ret = "none"

\* The runs explored: a workbook and the language it is processed for.
Runs ==
    (DedupBooks \X {LangNl}) \cup (FailureBooks \X {LangNl})
        \cup (SheetBooks \X {LangFr})

Init ==
    /\ \E run \in Runs : book = run[1] /\ lang = run[2]
    /\ pc = "Idle"
    /\ error = ""
    /\ id2cnk = EmptyDict
    /\ photos = <<>>
    /\ attempted = 0
    /\ saved = 0
    /\ missing_rows = <<>>
    /\ cnk_hashes = EmptyDict
    /\ cnk_counts = EmptyDict
    /\ zf = <<>>
    /\ ret = None
    /\ src = <<>>
    /\ stages = <<"Idle">>
    /\ SessionStart /\ NoSkuCall /\ ApiStart

----------------------------------------------------------------------------
(* The stages of the specification's state machine, as the places of the   *)
(* code: Extracting is lines 494-505, Ranking 507-516, Fetching line 554,  *)
(* Normalizing 563-564, Deduplicating 565-575, Archiving the writestr of   *)
(* line 583 and the close of lines 591-598.                                *)

RECURSIVE Enter(_, _)
\* The history h after the run has passed through the stages ss; staying
\* in the stage it is in is not entering it.
Enter(h, ss) ==
    IF ss = <<>> THEN h
    ELSE IF Head(ss) = h[Len(h)] THEN Enter(h, Tail(ss))
    ELSE Enter(Append(h, Head(ss)), Tail(ss))

\* Mutant: the hash is looked up before the image is put on the canvas.
AcceptStages_DedupFirst ==
    <<"Fetching", "Deduplicating", "Normalizing", "Archiving">>

\* Lines 554-583 in the order of the statements: the stages of a row that
\* is written, of a duplicate, and of a row whose download fails.
AcceptStages == <<"Fetching", "Normalizing", "Deduplicating", "Archiving">>
DuplicateStages == SubSeq(AcceptStages, 1, 3)
DownloadFailedStages == SubSeq(AcceptStages, 1, 1)
ProcessRaisesStages == SubSeq(AcceptStages, 1, 2) \o <<"Failed">>

----------------------------------------------------------------------------
(* The steps of the run.                                                   *)

Locals == <<id2cnk, photos, attempted, saved, missing_rows, cnk_hashes,
            cnk_counts, zf, src>>

\* Lines 494-496 raise ValueError: the exception leaves the function and is
\* caught by the caller (lines 675-676), which stores nothing.
ExtractRaises ==
    /\ pc = "Idle"
    /\ ProductsSchemaError(book) \/ PhotosSchemaError(book)
    /\ pc' = "Failed"
    /\ error' = "schema"
    /\ UNCHANGED <<book, lang, ret>>
    /\ UNCHANGED Locals
    /\ stages' = Enter(stages, <<"Extracting", "Failed">>)
    /\ UNCHANGED elsewhere

\* Lines 494-531: the sheets are read, the map and the ranked frame built.
Extract ==
    /\ pc = "Idle"
    /\ ~ProductsSchemaError(book) /\ ~PhotosSchemaError(book)
    /\ pc' = "Loop"
    /\ id2cnk' = BuildId2Cnk(book.products, EmptyDict)
    /\ photos' = RankedPhotos(book)
    /\ UNCHANGED <<book, lang, error, ret, attempted, saved, missing_rows,
                   cnk_hashes, cnk_counts, zf, src>>
    /\ stages' = Enter(stages, <<"Extracting", "Ranking">>)
    /\ UNCHANGED elsewhere

\* The loop has a row to take.
InLoop == pc = "Loop" /\ attempted < Len(photos)

\* The row of this iteration and what lines 535-537 compute from it.
Row == photos[attempted + 1]
RowPid == IF Row.pid = NaNId THEN None ELSE Row.pid
RowUrl == Strip(AsStr(Row.url))
RowCnk == IF Row.pid = NaNId THEN None ELSE Get(id2cnk, Row.pid)

\* Line 546: not url or url.lower() in ("nan", "none")
UrlIsEmpty(url) ==
    url = <<>> \/ Lower(url) \in {<<"n", "a", "n">>, <<"n", "o", "n", "e">>}

MissingRow(pid, cnk, url, reason) ==
    [pid |-> pid, cnk |-> cnk, url |-> url, reason |-> reason]

\* Line 535: int() of a text Product ID raises ValueError inside the loop;
\* nothing catches it before the caller does.
PidRaises ==
    /\ InLoop
    /\ Row.pid = TextId
    /\ attempted' = attempted + 1
    /\ pc' = "Failed"
    /\ error' = "ValueError"
    /\ UNCHANGED <<book, lang, ret, id2cnk, photos, saved, missing_rows,
                   cnk_hashes, cnk_counts, zf, src>>
    /\ stages' = Enter(stages, <<"Failed">>)
    /\ UNCHANGED elsewhere

\* Lines 538-545
NoCnk ==
    /\ InLoop
    /\ Row.pid # TextId
    /\ Falsy(RowCnk)
    /\ attempted' = attempted + 1
    /\ missing_rows' = Append(missing_rows,
           MissingRow(RowPid, None, RowUrl, "No CNK for Product ID"))
    /\ UNCHANGED <<book, lang, pc, error, ret, id2cnk, photos, saved,
                   cnk_hashes, cnk_counts, zf, src>>
    /\ stages' = Enter(stages, <<>>)
    /\ UNCHANGED elsewhere

\* Mutant: the row with an empty URL is passed over without a log entry.
EmptyUrl_NotLogged ==
    /\ InLoop
    /\ Row.pid # TextId
    /\ ~Falsy(RowCnk)
    /\ UrlIsEmpty(RowUrl)
    /\ attempted' = attempted + 1
    /\ UNCHANGED <<book, lang, pc, error, ret, id2cnk, photos, saved,
                   missing_rows, cnk_hashes, cnk_counts, zf, src>>
    /\ stages' = Enter(stages, <<>>)
    /\ UNCHANGED elsewhere

\* Lines 546-552
EmptyUrl ==
    /\ InLoop
    /\ Row.pid # TextId
    /\ ~Falsy(RowCnk)
    /\ UrlIsEmpty(RowUrl)
    /\ attempted' = attempted + 1
    /\ missing_rows' = Append(missing_rows,
           MissingRow(RowPid, RowCnk, RowUrl, "Empty URL"))
    /\ UNCHANGED <<book, lang, pc, error, ret, id2cnk, photos, saved,
                   cnk_hashes, cnk_counts, zf, src>>
    /\ stages' = Enter(stages, <<>>)
    /\ UNCHANGED elsewhere

\* The row reaches line 554: its image is requested.
Fetches == InLoop /\ Row.pid # TextId /\ ~Falsy(RowCnk) /\ ~UrlIsEmpty(RowUrl)

\* Mutant: the failure of the request is not swallowed and leaves the loop.
DownloadFailed_Raises ==
    /\ Fetches
    /\ DownloadImage(RowUrl) = NoImage
    /\ attempted' = attempted + 1
    /\ pc' = "Failed"
    /\ error' = "RequestException"
    /\ UNCHANGED <<book, lang, ret, id2cnk, photos, saved, missing_rows,
                   cnk_hashes, cnk_counts, zf, src>>
    /\ stages' = Enter(stages, <<"Fetching", "Failed">>)
    /\ UNCHANGED elsewhere

\* Lines 554-561
DownloadFailed ==
    /\ Fetches
    /\ DownloadImage(RowUrl) = NoImage
    /\ attempted' = attempted + 1
    /\ missing_rows' = Append(missing_rows,
           MissingRow(RowPid, RowCnk, RowUrl, "Download failed"))
    /\ UNCHANGED <<book, lang, pc, error, ret, id2cnk, photos, saved,
                   cnk_hashes, cnk_counts, zf, src>>
    /\ stages' = Enter(stages, DownloadFailedStages)
    /\ UNCHANGED elsewhere

\* Lines 563-564 raise: the exception leaves the loop and the function.
ProcessRaises ==
    /\ Fetches
    /\ DownloadImage(RowUrl) # NoImage
    /\ CanvasRaises(DownloadImage(RowUrl))
    /\ attempted' = attempted + 1
    /\ pc' = "Failed"
    /\ error' = "PIL"
    /\ UNCHANGED <<book, lang, ret, id2cnk, photos, saved, missing_rows,
                   cnk_hashes, cnk_counts, zf, src>>
    /\ stages' = Enter(stages, ProcessRaisesStages)
    /\ UNCHANGED elsewhere

\* The row reaches line 565: its image was fetched, decoded and encoded.
Processes ==
    Fetches /\ DownloadImage(RowUrl) # NoImage /\ ~CanvasRaises(DownloadImage(RowUrl))

RowBytes == ProcessedBytes(DownloadImage(RowUrl))
RowHash == HashBytes(RowBytes)

\* Mutant: the set of the CNK is made anew for every row, so that no hash
\* is ever found in it.
SeenHash_SetReset(hashes, cnk, h) == cnk \in DOMAIN hashes /\ h \in {}

\* Mutant: one hash set for the whole run instead of one per CNK.
SeenHash_AnyCnk(hashes, cnk, h) == \E k \in DOMAIN hashes : h \in hashes[k]

\* Line 569: h in cnk_hashes[cnk], after lines 567-568 made the set.
SeenHash(hashes, cnk, h) == cnk \in DOMAIN hashes /\ h \in hashes[cnk]

\* Mutant: the skipped duplicate is written to the missing log.
Duplicate_Logged ==
    /\ Processes
    /\ SeenHash(cnk_hashes, RowCnk, RowHash)
    /\ attempted' = attempted + 1
    /\ missing_rows' = Append(missing_rows,
           MissingRow(RowPid, RowCnk, RowUrl, "Duplicate"))
    /\ UNCHANGED <<book, lang, pc, error, ret, id2cnk, photos, saved,
                   cnk_hashes, cnk_counts, zf, src>>
    /\ stages' = Enter(stages, DuplicateStages)
    /\ UNCHANGED elsewhere

\* Lines 567-575: a duplicate inside the same CNK is skipped.
Duplicate ==
    /\ Processes
    /\ SeenHash(cnk_hashes, RowCnk, RowHash)
    /\ attempted' = attempted + 1
    /\ UNCHANGED <<book, lang, pc, error, ret, id2cnk, photos, saved,
                   missing_rows, cnk_hashes, cnk_counts, zf, src>>
    /\ stages' = Enter(stages, DuplicateStages)
    /\ UNCHANGED elsewhere

\* Mutant: the counter of a CNK is read but not advanced.
NextCount_NotAdvanced(counts, cnk) ==
    IF cnk \in DOMAIN counts THEN counts[cnk] ELSE 1

\* Lines 578-579: cnk_counts.get(cnk, 0) + 1
NextCount(counts, cnk) == (IF cnk \in DOMAIN counts THEN counts[cnk] ELSE 0) + 1

\* Lines 567-584: the image is new for its CNK and is written.
Accept ==
    /\ Processes
    /\ ~SeenHash(cnk_hashes, RowCnk, RowHash)
    /\ LET n == NextCount(cnk_counts, RowCnk)
           old == IF RowCnk \in DOMAIN cnk_hashes THEN cnk_hashes[RowCnk] ELSE {}
       IN  /\ cnk_hashes' = [k \in (DOMAIN cnk_hashes) \cup {RowCnk} |->
                                IF k = RowCnk THEN old \cup {RowHash}
                                ELSE cnk_hashes[k]]
           /\ cnk_counts' = [k \in (DOMAIN cnk_counts) \cup {RowCnk} |->
                                IF k = RowCnk THEN n ELSE cnk_counts[k]]
           /\ zf' = Append(zf, [name |-> Filename(RowCnk, lang, n),
                                data |-> RowBytes])
           /\ src' = Append(src, attempted + 1)
    /\ saved' = saved + 1
    /\ attempted' = attempted + 1
    /\ UNCHANGED <<book, lang, pc, error, ret, id2cnk, photos, missing_rows>>
    /\ stages' = Enter(stages, AcceptStages)
    /\ UNCHANGED elsewhere

\* Mutant: the archive is closed and returned while rows are still left.
Finish_Early ==
    /\ pc = "Loop"
    /\ attempted <= Len(photos)
    /\ pc' = "Done"
    /\ ret' = [zip |-> zf, missing |-> missing_rows,
               attempted |-> attempted, saved |-> saved]
    /\ UNCHANGED <<book, lang, error>>
    /\ UNCHANGED Locals
    /\ stages' = Enter(stages, <<"Archiving", "Done">>)
    /\ UNCHANGED elsewhere

\* Lines 591-598: the archive is closed and the four results returned.
Finish ==
    /\ pc = "Loop"
    /\ attempted = Len(photos)
    /\ pc' = "Done"
    /\ ret' = [zip |-> zf, missing |-> missing_rows,
               attempted |-> attempted, saved |-> saved]
    /\ UNCHANGED <<book, lang, error>>
    /\ UNCHANGED Locals
    /\ stages' = Enter(stages, <<"Archiving", "Done">>)
    /\ UNCHANGED elsewhere

Next ==
    \/ ExtractRaises
    \/ Extract
    \/ PidRaises
    \/ NoCnk
    \/ EmptyUrl
    \/ DownloadFailed
    \/ ProcessRaises
    \/ Duplicate
    \/ Accept
    \/ Finish

Spec == Init /\ [][Next]_vars

----------------------------------------------------------------------------
(* One call of parse_skus (line 613) on what the user entered.             *)

RECURSIVE Join(_, _)
\* The textarea: the tokens typed, the separator between them.
Join(toks, sep) ==
    IF toks = <<>> THEN <<>>
    ELSE IF Len(toks) = 1 THEN Head(toks)
    ELSE Head(toks) \o sep \o Join(Tail(toks), sep)

\* Tokens typed: spellings of the code 7, and another code.
RawTokens == {<<"7">>, <<"0", "7">>, <<"B", "E", "0", "7">>, <<"8">>}
Separators == {<<" ">>, <<",", " ">>, <<"\t", ",">>}

\* Cells of a sku column: text with blanks around it, a blank cell, an
\* empty cell.
SkuCells == {<<" ", "7", " ">>, <<"0", "7">>, <<" ">>, NaNCell}

Uploads ==
    {NoUpload, Unreadable, Sheet({"name"}, <<>>)}
        \cup {Sheet({"sku", "name"}, cells) : cells \in SeqsUpTo(SkuCells, MaxCells)}

SkuInit ==
    /\ sku_tokens \in [toks : SeqsUpTo(RawTokens, MaxTokens), sep : Separators]
    /\ sku_text = Join(sku_tokens.toks, sku_tokens.sep)
    /\ uploaded_file \in Uploads
    /\ dedup_on \in BOOLEAN
    /\ skus = <<>>
    /\ sku_pc = "called"
    /\ book = [productHeaders |-> {}, photoHeaders |-> {},
               products |-> <<>>, photos |-> <<>>]
    /\ lang = LangNl /\ pc = "Idle" /\ error = ""
    /\ id2cnk = EmptyDict /\ photos = <<>> /\ attempted = 0 /\ saved = 0
    /\ missing_rows = <<>> /\ cnk_hashes = EmptyDict /\ cnk_counts = EmptyDict
    /\ zf = <<>> /\ ret = None /\ src = <<>> /\ stages = <<"Idle">>
    /\ SessionStart /\ ApiStart

\* Lines 356-384: the call returns the merged list.
ParseSkusReturns ==
    /\ sku_pc = "called"
    /\ skus' = ParseSkus(sku_text, uploaded_file, dedup_on)
    /\ sku_pc' = "returned"
    /\ UNCHANGED <<sku_tokens, sku_text, uploaded_file, dedup_on>>
    /\ UNCHANGED <<runVars, sessionVars, apiVars>>

SkuNext == ParseSkusReturns

SkuSpec == SkuInit /\ [][SkuNext]_vars

----------------------------------------------------------------------------
(* The script around the runs: the submission of the form (lines 602-618)  *)
(* and the Process button (lines 655-707).  A click or a submission while  *)
(* the script is busy stops it where it is and starts it again.            *)

\* No workbook: no run is under way.
NoBook == [productHeaders |-> {}, photoHeaders |-> {},
           products |-> <<>>, photos |-> <<>>]

\* The locals of build_zip_and_missing at its entry, for workbook b and
\* language l; p is "Idle" at a call and "Off" while no call is under way.
ResetRun(b, l, p) ==
    /\ book' = b /\ lang' = l /\ pc' = p /\ error' = ""
    /\ id2cnk' = EmptyDict /\ photos' = <<>> /\ attempted' = 0 /\ saved' = 0
    /\ missing_rows' = <<>> /\ cnk_hashes' = EmptyDict
    /\ cnk_counts' = EmptyDict /\ zf' = <<>> /\ ret' = None /\ src' = <<>>
    /\ stages' = <<"Idle">>

\* The exports a submission can bring: a workbook whose rows are written,
\* skipped as duplicate and logged; one with rows without code and without
\* URL; one with a Product ID that is no number; one whose image cannot be
\* drawn; one without photo sheet.
PhotoRow(pid, url) ==
    [pid |-> pid, url |-> url, type |-> "productfoto", photoid |-> 1]
SessionBook(rows) ==
    [productHeaders |-> ProductHeadersOk, photoHeaders |-> PhotoHeadersOk,
     products |-> <<[ID |-> 1, CNK |-> <<"7">>]>>, photos |-> rows]
SessionBooks ==
    {SessionBook(<<PhotoRow(1, UrlPngA), PhotoRow(1, UrlPngA),
                   PhotoRow(1, UrlTimeout)>>),
     SessionBook(<<PhotoRow(1, UrlBlank), PhotoRow(1, UrlB),
                   PhotoRow(2, UrlPngA)>>),
     SessionBook(<<PhotoRow(1, UrlB), PhotoRow(TextId, UrlPngA)>>),
     SessionBook(<<PhotoRow(1, UrlOdd)>>),
     [SessionBook(<<PhotoRow(1, UrlB)>>) EXCEPT !.photoHeaders = {}]}

\* run_both_exports: the dict it returns has the languages whose export
\* produced a file.
ExportResults ==
    UNION {[ls -> SessionBooks] : ls \in SUBSET {"nl", "fr"}}

\* What the user typed as identifiers at a submission.
SubmitTexts == {<<>>, <<"7", ",", "0", "7">>}

\* Line 671: the language tag handed to the run.
LangTag(l) == IF l = "nl" THEN LangNl ELSE LangFr

\* Lines 658-662: the languages of the scope that have an export.
TotalLangs(scope, ex) ==
    (IF scope \in {"All (NL + FR)", "NL only"} /\ "nl" \in DOMAIN ex
     THEN <<"nl">> ELSE <<>>)
    \o (IF scope \in {"All (NL + FR)", "FR only"} /\ "fr" \in DOMAIN ex
        THEN <<"fr">> ELSE <<>>)

Scopes == {"All (NL + FR)", "NL only", "FR only"}

\* dict.update
Update(d, e) ==
    [k \in (DOMAIN d) \cup (DOMAIN e) |-> IF k \in DOMAIN e THEN e[k] ELSE d[k]]

\* d[k] = v
Put(d, k, v) == [j \in (DOMAIN d) \cup {k} |-> IF j = k THEN v ELSE d[j]]

\* Lines 593-597: the missing log as a sheet.  None and the empty text are
\* written as empty cells; a Product ID stays the number, or is no value.
ExcelText(v) == IF v = None \/ v = <<>> THEN NaNCell ELSE v
MissingExcel(rows) ==
    [i \in 1..Len(rows) |->
        [pid |-> rows[i].pid, cnk |-> ExcelText(rows[i].cnk),
         url |-> ExcelText(rows[i].url), reason |-> rows[i].reason]]

\* ZipFile.read(name): the data of the last entry of that name.
ReadName(z, name) ==
    LET last == CHOOSE i \in 1..Len(z) :
                    /\ z[i].name = name
                    /\ \A k \in 1..Len(z) : z[k].name = name => k <= i
    IN  z[last].data

\* Lines 686-692: every name of the NL archive, then every name of the FR
\* archive, written into one archive.
CombineZips(znl, zfr) ==
    [i \in 1..Len(znl) |-> [name |-> znl[i].name, data |-> ReadName(znl, znl[i].name)]]
    \o [i \in 1..Len(zfr) |-> [name |-> zfr[i].name, data |-> ReadName(zfr, zfr[i].name)]]

\* Adds the Lang column.
Tagged(rows, tag) ==
    [i \in 1..Len(rows) |->
        [pid |-> rows[i].pid, cnk |-> rows[i].cnk, url |-> rows[i].url,
         reason |-> rows[i].reason, Lang |-> tag]]

\* Mutant: the rows of the FR pass are left out of the combined report.
MergeMissing_NlOnly(nl, fr) == Tagged(nl, "NL")

\* Lines 697-701: both reports are read back, tagged and concatenated.
MergeMissing(nl, fr) == Tagged(nl, "NL") \o Tagged(fr, "FR")

\* Mutant: the outputs of the click before are left in place.
ClearedOnClick_Kept(d) == d

\* Lines 656-657: the dict is replaced by an empty one.
ClearedOnClick(d) == EmptyDict

SessionInit ==
    /\ SessionStart
    /\ book = NoBook /\ lang = LangNl /\ pc = "Off" /\ error = ""
    /\ id2cnk = EmptyDict /\ photos = <<>> /\ attempted = 0 /\ saved = 0
    /\ missing_rows = <<>> /\ cnk_hashes = EmptyDict /\ cnk_counts = EmptyDict
    /\ zf = <<>> /\ ret = None /\ src = <<>> /\ stages = <<"Idle">>
    /\ NoSkuCall /\ ApiStart

\* Lines 602-618: the form is submitted.  creds: email and password were
\* given; raised: run_both_exports raised (the login failed, the browser
\* broke) instead of returning.
Submit ==
    \E creds \in BOOLEAN, text \in SubmitTexts, raised \in BOOLEAN,
       results \in ExportResults :
        LET parsed == ParseSkus(text, NoUpload, TRUE)
            ran == creds /\ parsed # <<>>
        IN  /\ photo_outputs' = EmptyDict
            /\ missing_excels' = EmptyDict
            /\ last_refs' = IF ran THEN Join(parsed, <<" ">>) ELSE <<>>
            /\ exports' = IF ran /\ ~raised /\ DOMAIN results # {}
                          THEN results ELSE EmptyDict
            /\ ui' = "Ready"
            /\ total_langs' = <<>>
            /\ lang_zips' = EmptyDict /\ lang_missing' = EmptyDict
            /\ origin' = EmptyDict
            /\ ResetRun(NoBook, LangNl, "Off")
            /\ UNCHANGED <<skuVars, apiVars>>

\* Lines 655-665: the Process button is clicked with a scope chosen.
ClickProcess ==
    /\ DOMAIN exports # {}
    /\ \E scope \in Scopes :
           total_langs' = TotalLangs(scope, exports)
    /\ photo_outputs' = ClearedOnClick(photo_outputs)
    /\ missing_excels' = ClearedOnClick(missing_excels)
    /\ lang_zips' = EmptyDict /\ lang_missing' = EmptyDict
    /\ origin' = EmptyDict
    /\ ui' = "Passes"
    /\ ResetRun(NoBook, LangNl, "Off")
    /\ UNCHANGED <<exports, last_refs, skuVars, apiVars>>

\* Lines 667-671: build_zip_and_missing is called for the next language.
StartPass ==
    /\ ui = "Passes"
    /\ total_langs # <<>>
    /\ ResetRun(exports[Head(total_langs)], LangTag(Head(total_langs)), "Idle")
    /\ ui' = "Pass"
    /\ UNCHANGED <<exports, last_refs, photo_outputs, missing_excels,
                   total_langs, lang_zips, lang_missing, origin>>
    /\ UNCHANGED <<skuVars, apiVars>>

\* Lines 671-674: the call returned; its archive and report are kept.
PassReturns ==
    /\ ui = "Pass"
    /\ pc = "Done"
    /\ lang_zips' = Put(lang_zips, Head(total_langs), ret.zip)
    /\ lang_missing' = Put(lang_missing, Head(total_langs), MissingExcel(ret.missing))
    /\ origin' = Put(origin, Head(total_langs),
                     [book |-> book, missing |-> missing_rows])
    /\ total_langs' = Tail(total_langs)
    /\ ui' = "Passes"
    /\ ResetRun(NoBook, LangNl, "Off")
    /\ UNCHANGED <<exports, last_refs, photo_outputs, missing_excels>>
    /\ UNCHANGED <<skuVars, apiVars>>

\* Lines 675-676: the call raised; the error is shown, nothing is kept.
PassRaises ==
    /\ ui = "Pass"
    /\ pc = "Failed"
    /\ total_langs' = Tail(total_langs)
    /\ ui' = "Passes"
    /\ ResetRun(NoBook, LangNl, "Off")
    /\ UNCHANGED <<exports, last_refs, photo_outputs, missing_excels,
                   lang_zips, lang_missing, origin>>
    /\ UNCHANGED <<skuVars, apiVars>>

\* Lines 678-707: the outputs of the passes are stored and, when both
\* languages were processed, combined.
StoreOutputs ==
    /\ ui = "Passes"
    /\ total_langs = <<>>
    /\ LET both == {"nl", "fr"} \subseteq DOMAIN lang_zips
           po == Update(photo_outputs, lang_zips)
           me == Update(missing_excels,
                        [k \in {"missing_nl" : x \in DOMAIN lang_missing \cap {"nl"}}
                               \cup {"missing_fr" : x \in DOMAIN lang_missing \cap {"fr"}}
                            |-> IF k = "missing_nl" THEN lang_missing["nl"]
                                ELSE lang_missing["fr"]])
       IN  /\ photo_outputs' =
                  IF both
                  THEN Put(po, "all", CombineZips(lang_zips["nl"], lang_zips["fr"]))
                  ELSE po
           /\ missing_excels' =
                  IF both
                  THEN Put(me, "missing_all",
                           MergeMissing(lang_missing["nl"], lang_missing["fr"]))
                  ELSE me
    /\ ui' = "Ready"
    /\ UNCHANGED <<exports, last_refs, total_langs, lang_zips, lang_missing,
                   origin>>
    /\ UNCHANGED <<runVars, skuVars, apiVars>>

SessionNext ==
    \/ Submit
    \/ ClickProcess
    \/ StartPass
    \/ PassReturns
    \/ PassRaises
    \/ StoreOutputs
    \/ ExtractRaises
    \/ Extract
    \/ PidRaises
    \/ NoCnk
    \/ EmptyUrl
    \/ DownloadFailed
    \/ ProcessRaises
    \/ Duplicate
    \/ Accept
    \/ Finish

SessionSpec == SessionInit /\ [][SessionNext]_vars

\* The same run, started on the ranking workbooks.
RankInit ==
    /\ \E run \in RankRuns : book = run[1] /\ lang = run[2]
    /\ pc = "Idle"
    /\ error = ""
    /\ id2cnk = EmptyDict
    /\ photos = <<>>
    /\ attempted = 0
    /\ saved = 0
    /\ missing_rows = <<>>
    /\ cnk_hashes = EmptyDict
    /\ cnk_counts = EmptyDict
    /\ zf = <<>>
    /\ ret = None
    /\ src = <<>>
    /\ stages = <<"Idle">>
    /\ SessionStart /\ NoSkuCall /\ ApiStart

RankSpec == RankInit /\ [][Next]_vars

----------------------------------------------------------------------------
(* MedipimAPI (src/medipim_api.py): one object, its methods called one     *)
(* after the other.  Every request of a method is a step; what the server  *)
(* answers, and whether the request raises, is chosen freely.              *)

\* The number of method calls explored on one object.
MaxCalls == 2

ApiMethods == {"search_product", "get_image_url", "download_image"}

\* What a method returns when its login fails: None, or (False, None, None).
Failure(m) ==
    IF m = "download_image" THEN <<"False">> \o None \o None ELSE None

\* The method ended with an exception instead of returning.
Raised == <<"raised">>

\* A request as it is issued: what it asks for and self.logged_in then.
Request(kind) == [kind |-> kind, logged_in |-> logged_in]

\* A page as login reads it: whether its text has "logout", "_username",
\* "_password", whether its URL has "/login", and whether the status is ok.
Pages ==
    [logout : BOOLEAN, username : BOOLEAN, password : BOOLEAN,
     at_login : BOOLEAN, ok : BOOLEAN]

\* Lines 38-43.
looks_logged_in(page) ==
    LET has_logout == page.logout
        no_login_form == ~page.username /\ ~page.password
        left_login_page == ~page.at_login
    IN  has_logout \/ (left_login_page /\ no_login_form)

\* Mutant: the result of login() is not looked at.
AfterLogin_Ignored(ok) == "body"

\* `if not self.logged_in and not self.login(): return ...`: after login()
\* the method goes on when it returned True and returns when not.
AfterLogin(ok) == IF ok THEN "body" ELSE "return"

\* The requests of the running method for a product or detail page.
ProductRequests(reqs) == {i \in 1..Len(reqs) : reqs[i].kind = "product"}

\* The method ends: r is returned, or it raised.
EndCall(r) == api_pc' = "idle" /\ api_ret' = r

ApiInit ==
    /\ ApiStart
    /\ book = NoBook /\ lang = LangNl /\ pc = "Off" /\ error = ""
    /\ id2cnk = EmptyDict /\ photos = <<>> /\ attempted = 0 /\ saved = 0
    /\ missing_rows = <<>> /\ cnk_hashes = EmptyDict /\ cnk_counts = EmptyDict
    /\ zf = <<>> /\ ret = None /\ src = <<>> /\ stages = <<"Idle">>
    /\ SessionStart /\ NoSkuCall

\* A method is called; the guard of its first line reads self.logged_in.
ApiCall ==
    /\ api_pc = "idle"
    /\ api_calls < MaxCalls
    /\ \E m \in ApiMethods : api_method' = m
    /\ api_calls' = api_calls + 1
    /\ api_entry' = logged_in
    /\ login_ret' = "none"
    /\ api_reqs' = <<>>
    /\ api_ret' = <<"running">>
    /\ api_pc' = IF logged_in THEN "body" ELSE "login_get"
    /\ UNCHANGED <<logged_in, post_left>>
    /\ UNCHANGED <<runVars, sessionVars, skuVars>>

\* Line 23: the login page is fetched; the request can raise.
LoginGet ==
    /\ api_pc = "login_get"
    /\ api_reqs' = Append(api_reqs, Request("login"))
    /\ \E raises \in BOOLEAN :
           IF raises
           THEN EndCall(Raised) /\ login_ret' = "raised"
           ELSE api_pc' = "login_post" /\ UNCHANGED <<api_ret, login_ret>>
    /\ UNCHANGED <<logged_in, api_method, api_calls, post_left, api_entry>>
    /\ UNCHANGED <<runVars, sessionVars, skuVars>>

\* Lines 28-47: the credentials are posted and the answer is looked at.
LoginPost ==
    /\ api_pc = "login_post"
    /\ api_reqs' = Append(api_reqs, Request("login"))
    /\ \E raises \in BOOLEAN, resp_post \in Pages :
           IF raises
           THEN /\ EndCall(Raised) /\ login_ret' = "raised"
                /\ UNCHANGED <<logged_in, post_left>>
           ELSE IF looks_logged_in(resp_post)
           THEN /\ logged_in' = TRUE
                /\ login_ret' = "True"
                /\ api_pc' = AfterLogin(TRUE)
                /\ UNCHANGED <<api_ret, post_left>>
           ELSE /\ post_left' = (resp_post.ok /\ ~resp_post.at_login)
                /\ api_pc' = "login_home"
                /\ UNCHANGED <<logged_in, api_ret, login_ret>>
    /\ UNCHANGED <<api_method, api_calls, api_entry>>
    /\ UNCHANGED <<runVars, sessionVars, skuVars>>

\* Lines 49-62 and the guard of the method: the home page is fetched (an
\* exception is swallowed), then the answer to the post decides; on False
\* the method returns its failure value.
LoginHome ==
    /\ api_pc = "login_home"
    /\ api_reqs' = Append(api_reqs, Request("home"))
    /\ \E raises \in BOOLEAN, home_resp \in Pages :
           LET ok == (~raises /\ looks_logged_in(home_resp)) \/ post_left
           IN  /\ logged_in' = ok
               /\ login_ret' = IF ok THEN "True" ELSE "False"
               /\ IF AfterLogin(ok) = "body"
                  THEN api_pc' = "body" /\ UNCHANGED api_ret
                  ELSE EndCall(Failure(api_method))
    /\ UNCHANGED <<api_method, api_calls, post_left, api_entry>>
    /\ UNCHANGED <<runVars, sessionVars, skuVars>>

\* Lines 78-100: search_product asks with up to three search patterns; an
\* answer that is not 200 or has no product link leads to the next one.
SearchRequest ==
    /\ api_pc = "body"
    /\ api_method = "search_product"
    /\ api_reqs' = Append(api_reqs, Request("product"))
    /\ \E answer \in {"raises", "not 200", "no links", "links"} :
           IF answer = "raises" THEN EndCall(Raised)
           ELSE IF answer = "links" THEN EndCall(<<"href">>)
           ELSE IF Cardinality(ProductRequests(api_reqs')) = 3 THEN EndCall(None)
           ELSE UNCHANGED <<api_pc, api_ret>>
    /\ UNCHANGED <<logged_in, api_method, api_calls, post_left, api_entry,
                   login_ret>>
    /\ UNCHANGED <<runVars, sessionVars, skuVars>>

\* Lines 106-128: get_image_url fetches the detail page; it returns the
\* asset URL found in it or goes on to the media page.
DetailRequest ==
    /\ api_pc = "body"
    /\ api_method = "get_image_url"
    /\ api_reqs' = Append(api_reqs, Request("product"))
    /\ \E answer \in {"raises", "asset", "no asset"} :
           IF answer = "raises" THEN EndCall(Raised)
           ELSE IF answer = "asset" THEN EndCall(<<"url">>)
           ELSE api_pc' = "media" /\ UNCHANGED api_ret
    /\ UNCHANGED <<logged_in, api_method, api_calls, post_left, api_entry,
                   login_ret>>
    /\ UNCHANGED <<runVars, sessionVars, skuVars>>

\* Lines 129-150: the media page, found by its link or guessed, is fetched.
MediaRequest ==
    /\ api_pc = "media"
    /\ api_reqs' = Append(api_reqs, Request("media"))
    /\ \E answer \in {"raises", "asset", "no asset"} :
           IF answer = "raises" THEN EndCall(Raised)
           ELSE IF answer = "asset" THEN EndCall(<<"url">>)
           ELSE EndCall(None)
    /\ UNCHANGED <<logged_in, api_method, api_calls, post_left, api_entry,
                   login_ret>>
    /\ UNCHANGED <<runVars, sessionVars, skuVars>>

\* Lines 155-173: download_image fetches the image; an exception is caught.
ImageRequest ==
    /\ api_pc = "body"
    /\ api_method = "download_image"
    /\ api_reqs' = Append(api_reqs, Request("image"))
    /\ \E answer \in {"raises", "image", "other"} :
           IF answer = "raises" THEN EndCall(<<"False">> \o None \o None)
           ELSE IF answer = "image" THEN EndCall(<<"True", "200", "image/png">>)
           ELSE EndCall(<<"False", "404", "text/html">>)
    /\ UNCHANGED <<logged_in, api_method, api_calls, post_left, api_entry,
                   login_ret>>
    /\ UNCHANGED <<runVars, sessionVars, skuVars>>

ApiNext ==
    \/ ApiCall
    \/ LoginGet
    \/ LoginPost
    \/ LoginHome
    \/ SearchRequest
    \/ DetailRequest
    \/ MediaRequest
    \/ ImageRequest

ApiSpec == ApiInit /\ [][ApiNext]_vars

----------------------------------------------------------------------------
(* Vocabulary of the properties.                                           *)

\* The CNK under which archive entry i was written.
EntryCnk(i) == Get(id2cnk, photos[src[i]].pid)

\* The archive entries written under CNK c.
EntriesOf(c) == {i \in 1..Len(zf) : EntryCnk(i) = c}

\* What row j of the frame is as a candidate: its CNK and URL, whether it
\* yields a processed image, and the bytes of that image.
CandCnk(j) == IF photos[j].pid < 0 THEN None ELSE Get(id2cnk, photos[j].pid)
CandUrl(j) == Strip(AsStr(photos[j].url))
CandOk(j) ==
    /\ photos[j].pid >= 0
    /\ ~Falsy(CandCnk(j))
    /\ ~UrlIsEmpty(CandUrl(j))
    /\ DownloadImage(CandUrl(j)) # NoImage
    /\ ~CanvasRaises(DownloadImage(CandUrl(j)))
CandBytes(j) == ProcessedBytes(DownloadImage(CandUrl(j)))

\* Rows i and j are duplicates of each other: one CNK, the same final bytes.
SameImage(i, j) ==
    CandOk(i) /\ CandOk(j) /\ CandCnk(i) = CandCnk(j) /\ CandBytes(i) = CandBytes(j)

\* (type_rank, sequence_rank) of row j.
Rank(j) == <<RankType(photos[j].type), RankPhotoId(photos[j].photoid)>>

\* The rows the loop has finished with.
Taken == 1..attempted

----------------------------------------------------------------------------
(* C1: no two images written to the archive under the same CNK have the    *)
(* same content hash, the hash being the MD5 of the JPEG bytes written.    *)
C1_NoEqualHashPerCnk ==
    \A i, j \in 1..Len(zf) :
        (i # j /\ EntryCnk(i) = EntryCnk(j))
            => HashBytes(zf[i].data) # HashBytes(zf[j].data)

\* A finished run that wrote two images under one CNK and skipped a third
\* row because its hash was already there.
C1_Witness ==
    /\ pc = "Done"
    /\ \E i, j \in 1..Len(zf) : i # j /\ EntryCnk(i) = EntryCnk(j)
    /\ \E j \in Taken : \E i \in 1..Len(zf) :
           src[i] # j /\ SameImage(src[i], j)

----------------------------------------------------------------------------
(* The similarity fingerprint of the specification: a 64-bit difference   *)
(* hash of the processed picture, here the set of its 1 bits.  The         *)
(* recompressed copy of picture A differs from A in one bit.               *)
Fingerprint(jb) ==
    CASE jb = 110 -> {1, 5, 9}
      [] jb = 111 -> {1, 5, 9, 12}
      [] jb = 112 -> {2, 3, 20, 21, 40, 41, 60}
      [] OTHER -> {}

Hamming(f, g) == Cardinality((f \ g) \cup (g \ f))

\* C2 as claimed: no two images archived under one CNK have fingerprints
\* within Hamming distance 3 of each other.
C2_Claimed_NoNearDuplicates ==
    \A i, j \in 1..Len(zf) :
        (i # j /\ EntryCnk(i) = EntryCnk(j))
            => Hamming(Fingerprint(zf[i].data), Fingerprint(zf[j].data)) > 3

(* C2 as amended: a candidate is rejected as a duplicate exactly when its  *)
(* encoded bytes equal those of an image already archived under the same   *)
(* CNK; nearness of fingerprints plays no part.  So every processed image  *)
(* of a CNK is in the archive exactly once, however close its fingerprint  *)
(* is to another's.                                                        *)
C2_ExactDuplicatesOnly ==
    \A j \in Taken :
        CandOk(j) =>
            Cardinality({i \in EntriesOf(CandCnk(j)) :
                            zf[i].data = CandBytes(j)}) = 1

\* A finished run whose archive holds, under one CNK, two images one
\* fingerprint bit apart, and that also skipped an exact duplicate.
C2_Witness ==
    /\ pc = "Done"
    /\ \E i, j \in 1..Len(zf) :
           /\ i # j /\ EntryCnk(i) = EntryCnk(j)
           /\ Hamming(Fingerprint(zf[i].data), Fingerprint(zf[j].data)) = 1
    /\ \E j \in Taken : \E i \in 1..Len(zf) :
           src[i] # j /\ SameImage(src[i], j)

----------------------------------------------------------------------------
(* C3 as claimed: of the candidates of one CNK that are duplicates of each *)
(* other, the image kept is the one with the smallest (type_rank,          *)
(* sequence_rank), whichever product ids the candidates come from.         *)
C3_Claimed_KeptHasSmallestRank ==
    \A e \in 1..Len(zf) : \A j \in 1..Len(photos) :
        SameImage(src[e], j) => ~LexLess(Rank(j), Rank(src[e]))

(* C3 as amended: dedup decisions are applied in the order of the frame,   *)
(* (Product ID, type_rank, sequence_rank) ascending.  Of the candidates of *)
(* one CNK that are duplicates of each other exactly one is kept, the      *)
(* first in that order: among the candidates of one product id it is the   *)
(* one with the smallest (type_rank, sequence_rank), and a candidate of a  *)
(* smaller product id is kept over its duplicates of a larger product id   *)
(* whatever their ranks.                                                   *)
C3_KeptIsFirstInFrameOrder ==
    \A e \in 1..Len(zf) :
        /\ \A j \in 1..Len(photos) :
               SameImage(src[e], j) =>
                   /\ ~LexLess(SortKey(photos[j]), SortKey(photos[src[e]]))
                   /\ photos[j].pid = photos[src[e]].pid
                          => ~LexLess(Rank(j), Rank(src[e]))
        /\ Cardinality({d \in 1..Len(zf) : SameImage(src[d], src[e])}) = 1

\* A finished run in which the image kept comes from the smaller product
\* id and has a worse rank than a duplicate of the larger product id.
C3_Witness ==
    /\ pc = "Done"
    /\ \E e \in 1..Len(zf) : \E j \in 1..Len(photos) :
           /\ SameImage(src[e], j)
           /\ photos[src[e]].pid < photos[j].pid
           /\ LexLess(Rank(j), Rank(src[e]))

----------------------------------------------------------------------------
(* C4: for every CNK with N accepted images the archive holds exactly N    *)
(* entries of that CNK, numbered 1..N in writing order with no gap and no  *)
(* repeat, and no two entries of the archive have the same filename.       *)
C4_FilenamesNumberedAndUnique ==
    /\ \A i \in 1..Len(zf) :
           zf[i].name =
               Filename(EntryCnk(i), lang,
                        Cardinality({k \in EntriesOf(EntryCnk(i)) : k <= i}))
    /\ \A c \in DOMAIN cnk_hashes :
           /\ Cardinality(EntriesOf(c)) = Cardinality(cnk_hashes[c])
           /\ c \in DOMAIN cnk_counts
           /\ cnk_counts[c] = Cardinality(EntriesOf(c))
    /\ \A i \in 1..Len(zf) : EntryCnk(i) \in DOMAIN cnk_hashes
    /\ \A i, j \in 1..Len(zf) : i # j => zf[i].name # zf[j].name
    /\ pc = "Done" => ret.zip = zf /\ ret.saved = Len(zf)

\* A finished run that wrote three images under one CNK, taken from two
\* product ids.
C4_Witness ==
    /\ pc = "Done"
    /\ \E i, j \in 1..Len(zf) :
           /\ i # j /\ EntryCnk(i) = EntryCnk(j)
           /\ photos[src[i]].pid # photos[src[j]].pid
           /\ Cardinality(EntriesOf(EntryCnk(i))) = 3

----------------------------------------------------------------------------
\* The row taken now yields an image whose bytes are already archived under
\* its CNK.
AlreadyArchived ==
    Processes /\ \E i \in EntriesOf(RowCnk) : zf[i].data = RowBytes

(* C5: feeding an image whose processed bytes are already archived under   *)
(* the same CNK changes nothing: hash sets, counters, archive, saved count *)
(* and missing log stay as they were, the run goes on, and the archive     *)
(* still holds exactly one entry of that image.                            *)
C5_SecondFeedChangesNothing ==
    [][AlreadyArchived =>
          /\ UNCHANGED <<cnk_hashes, cnk_counts, zf, saved, missing_rows>>
          /\ pc' = "Loop"
          /\ attempted' = attempted + 1
          /\ Cardinality({i \in 1..Len(zf') :
                 zf'[i].data = RowBytes /\ EntryCnk(i) = RowCnk}) = 1]_vars

\* The loop has just skipped a row whose image was already archived.
C5_Witness ==
    /\ pc = "Loop"
    /\ attempted > 0
    /\ CandOk(attempted)
    /\ \E i \in 1..Len(zf) :
           src[i] < attempted /\ SameImage(src[i], attempted)
    /\ missing_rows = <<>>

----------------------------------------------------------------------------
(* The code cell the product sheet gives a product id: the cell of the    *)
(* last row with that ID.                                                  *)
RowsOfId(pid) == {i \in 1..Len(book.products) : book.products[i].ID = pid}

CodeCell(pid) ==
    LET last == CHOOSE i \in RowsOfId(pid) : \A k \in RowsOfId(pid) : k <= i
    IN  book.products[last].CNK

\* The product table has no code for the product id: no row of that id, or
\* a row whose code cell is empty or blank.
NoCodeInTable(pid) ==
    \/ pid < 0
    \/ RowsOfId(pid) = {}
    \/ CodeCell(pid) = NaNCell
    \/ \A k \in 1..Len(CodeCell(pid)) : CodeCell(pid)[k] \in Whitespace

\* C6 as claimed: a photo row whose product id has no code in the product
\* table is never archived and gets exactly one row of the missing log, with
\* the reason "No CNK for Product ID" (the spec's "No canonical code"); so
\* every archived image has a code that the product table gives.
C6_Claimed_NoCodeNeverArchived ==
    /\ \A e \in 1..Len(zf) : ~NoCodeInTable(photos[src[e]].pid)
    /\ pc # "Failed" =>
           \A j \in Taken :
               (photos[j].pid # TextId /\ NoCodeInTable(photos[j].pid)) =>
                   \E m \in 1..Len(missing_rows) :
                       /\ missing_rows[m].reason = "No CNK for Product ID"
                       /\ missing_rows[m].url = CandUrl(j)

----------------------------------------------------------------------------
(* The canonical code of the specification: digits only, no leading zero  *)
(* unless the text is all zeros.                                           *)
Digit == {"0", "1", "2", "3", "4", "5", "6", "7", "8", "9"}

IsCanonical(c) ==
    /\ c # <<>>
    /\ \A k \in 1..Len(c) : c[k] \in Digit
    /\ c[1] = "0" => \A k \in 1..Len(c) : c[k] = "0"

WithoutSpaces(s) == SelectSeq(s, LAMBDA c : c # " ")

----------------------------------------------------------------------------
\* The fetch of the row taken now fails.
FetchFails ==
    /\ Fetches
    /\ \/ Web(RowUrl).status # "200"
       \/ Web(RowUrl).body = 0

(* C8: when the fetch of a candidate fails (the request raises, the status *)
(* is not 200 or the body is empty) nothing is raised, exactly one row     *)
(* with the reason "Download failed" is added to the missing log for that  *)
(* candidate, nothing is archived, and the loop goes on to the next row; a *)
(* run that ends normally has taken every row.                             *)
C8_FetchFailureIsLoggedAndSkipped ==
    [][/\ FetchFails =>
              /\ missing_rows' = Append(missing_rows,
                     MissingRow(RowPid, RowCnk, RowUrl, "Download failed"))
              /\ UNCHANGED <<zf, saved, cnk_hashes, cnk_counts>>
              /\ pc' = "Loop"
              /\ attempted' = attempted + 1
       /\ pc' = "Done" => attempted' = Len(photos')]_vars

\* A finished run that logged a failed fetch and archived a later row.
C8_Witness ==
    /\ pc = "Done"
    /\ \E m \in 1..Len(missing_rows) : \E e \in 1..Len(zf) : \E j \in Taken :
           /\ missing_rows[m].reason = "Download failed"
           /\ missing_rows[m].url = CandUrl(j)
           /\ Web(CandUrl(j)).status # "200"
           /\ j < src[e]

----------------------------------------------------------------------------
\* Row j was fetched (status 200, a body) but its bytes cannot be decoded,
\* drawn or re-encoded.
FetchedButUnusable(j) ==
    /\ photos[j].pid >= 0
    /\ ~Falsy(CandCnk(j))
    /\ ~UrlIsEmpty(CandUrl(j))
    /\ Web(CandUrl(j)).status = "200"
    /\ Web(CandUrl(j)).body # 0
    /\ \/ Web(CandUrl(j)).body \notin Decodable
       \/ CanvasRaises(Web(CandUrl(j)).body)

(* C9 as claimed: a candidate whose bytes were fetched (status 200, body   *)
(* not empty) but cannot be decoded, drawn or re-encoded gets one row of   *)
(* the missing log with the reason "Processing failed", and the run goes   *)
(* on.                                                                     *)
C9_Claimed_ProcessingFailedLogged ==
    \A j \in Taken :
        FetchedButUnusable(j) =>
            /\ pc # "Failed"
            /\ \E m \in 1..Len(missing_rows) :
                   /\ missing_rows[m].reason = "Processing failed"
                   /\ missing_rows[m].url = CandUrl(j)

----------------------------------------------------------------------------
(* C10 as claimed: a run fails only on a schema error; every failure of a  *)
(* single candidate is caught at that candidate.                           *)
C10_Claimed_OnlySchemaErrorFails ==
    pc = "Failed" => error = "schema"

----------------------------------------------------------------------------
\* A required column is absent: the first sheet has no ID header or neither
\* CNK header, or the photo sheet (none at all is a sheet without headers)
\* has no Product ID or no 900x900 header.
RequiredColumnMissing ==
    \/ "id" \notin book.productHeaders
    \/ ("cnk code" \notin book.productHeaders
        /\ "code cnk" \notin book.productHeaders)
    \/ "product id" \notin book.photoHeaders
    \/ "900x900" \notin book.photoHeaders

(* C11: when a required column is absent from the first sheet or from the  *)
(* photo sheet, or there is no photo sheet, the run fails with the schema  *)
(* error before any candidate is taken or fetched: no row is attempted,    *)
(* nothing is written or logged, and nothing is returned for the caller to *)
(* store.                                                                  *)
C11_SchemaErrorBeforeAnyFetch ==
    RequiredColumnMissing =>
        /\ pc \in {"Idle", "Failed"}
        /\ pc = "Failed" => error = "schema"
        /\ attempted = 0 /\ saved = 0
        /\ photos = <<>>
        /\ zf = <<>> /\ missing_rows = <<>>
        /\ ret = None

\* A run that failed on a photo sheet without the URL column, although the
\* first sheet is complete and the photo sheet holds a row that downloads.
C11_Witness ==
    /\ pc = "Failed" /\ error = "schema"
    /\ ProductHeadersOk \subseteq book.productHeaders
    /\ "product id" \in book.photoHeaders
    /\ "900x900" \notin book.photoHeaders
    /\ Len(book.photos) = 1
    /\ book.photos[1].pid = 1
    /\ DownloadImage(book.photos[1].url) # NoImage

----------------------------------------------------------------------------
\* Row j of the frame has reached its outcome: it was archived, logged in
\* the missing log, or suppressed as the duplicate of an archived row.
Archived(j) == \E e \in 1..Len(zf) : src[e] = j
LoggedMissing(j) ==
    \E m \in 1..Len(missing_rows) :
        /\ missing_rows[m].url = CandUrl(j)
        /\ missing_rows[m].pid = (IF photos[j].pid = NaNId THEN None
                                  ELSE photos[j].pid)
Suppressed(j) == \E e \in 1..Len(zf) : src[e] < j /\ SameImage(src[e], j)

(* C12: the archive is handed out only by a run that has taken every row   *)
(* of the ranked frame, each row archived, suppressed as a duplicate or     *)
(* logged as missing; until then, and for ever in a run that fails, the    *)
(* caller gets nothing, so never a partial archive.                        *)
C12_ArchiveOnlyAfterAllCandidates ==
    /\ pc = "Done" =>
           /\ attempted = Len(photos)
           /\ ret.zip = zf
           /\ \A j \in 1..Len(photos) :
                  Archived(j) \/ LoggedMissing(j) \/ Suppressed(j)
    /\ pc # "Done" => ret = None

\* A run that failed after it had written an image: the archive under
\* construction is dropped, nothing is returned.
C12_Witness ==
    /\ pc = "Failed"
    /\ Len(zf) >= 1
    /\ attempted < Len(photos)
    /\ ret = None

----------------------------------------------------------------------------
\* The rows of the photo sheet that survive the URL filter: the URL cell is
\* not empty.
SurvivingRows == {i \in 1..Len(book.photos) : book.photos[i].url # NaNCell}

\* How many of the three outcomes row j of the frame has.
Outcomes(j) ==
    (IF Archived(j) THEN 1 ELSE 0) + (IF LoggedMissing(j) THEN 1 ELSE 0)
        + (IF Suppressed(j) /\ ~Archived(j) THEN 1 ELSE 0)

(* C18: in a run that returns, every surviving row has exactly one         *)
(* outcome: attempted is the number of surviving rows, saved the number of *)
(* archive entries, and attempted = saved + rows of the missing log +      *)
(* suppressed duplicates.                                                  *)
C18_EveryRowHasOneOutcome ==
    pc = "Done" =>
        /\ ret.attempted = Cardinality(SurvivingRows)
        /\ ret.attempted = Len(photos)
        /\ ret.saved = Len(ret.zip)
        /\ ret.attempted = ret.saved + Len(ret.missing)
               + Cardinality({j \in 1..Len(photos) :
                                 Suppressed(j) /\ ~Archived(j)})
        /\ \A j \in 1..Len(photos) : Outcomes(j) = 1
        /\ \A e \in 1..Len(zf) : \A d \in 1..Len(zf) : src[e] = src[d] => e = d

\* A run that returned with one row of each outcome: archived, suppressed
\* and logged.
C18_Witness ==
    /\ pc = "Done"
    /\ ret.attempted = 3
    /\ ret.saved = 1
    /\ Len(ret.missing) = 1
    /\ \E j \in 1..Len(photos) : Suppressed(j) /\ ~Archived(j)

----------------------------------------------------------------------------
\* The product ids of the photo sheet all of whose rows have an empty URL
\* cell: they have no row left in the frame.
NoSurvivingRow ==
    {book.photos[i].pid : i \in {k \in 1..Len(book.photos) :
                                    book.photos[k].pid >= 0}}
        \ {book.photos[i].pid : i \in SurvivingRows}

\* C15 as claimed: rows with an empty URL are left out of the frame and
\* never fetched, and a product that has no row left is still reported: the
\* missing report of a run that returns has a row for it.
C15_Claimed_EmptyUrlProductsReported ==
    /\ \A j \in 1..Len(photos) : photos[j].url # NaNCell
    /\ pc = "Done" =>
           \A pid \in NoSurvivingRow :
               \E m \in 1..Len(ret.missing) :
                   ret.missing[m].pid = pid

----------------------------------------------------------------------------
\* The stages of the specification in the order it gives them.
StageOrder ==
    <<"Idle", "Extracting", "Ranking", "Fetching", "Normalizing",
      "Deduplicating", "Archiving", "Done">>

StageNo(st) == CHOOSE n \in 1..Len(StageOrder) : StageOrder[n] = st

\* C13 as claimed: the run enters the stages in the order Idle, Extracting,
\* Ranking, Fetching, Normalizing, Deduplicating, Archiving, Done and never
\* returns to a stage it has left; a run that archives an image has passed
\* every stage; the only other stage is Failed, which ends the run.
C13_Claimed_StagesInOrderOnce ==
    /\ stages[1] = "Idle"
    /\ \A k \in 1..(Len(stages) - 1) :
           /\ stages[k] # "Failed"
           /\ stages[k + 1] # "Failed" =>
                  StageNo(stages[k + 1]) > StageNo(stages[k])
    /\ (pc = "Done" /\ saved > 0) =>
           \A n \in 1..Len(StageOrder) :
               \E k \in 1..Len(stages) : stages[k] = StageOrder[n]

\* The steps from stage to stage that the loop over the candidates takes.
StageSteps ==
    {<<"Idle", "Extracting">>,
     <<"Extracting", "Ranking">>, <<"Extracting", "Failed">>,
     <<"Ranking", "Fetching">>, <<"Ranking", "Archiving">>,
     <<"Ranking", "Failed">>,
     <<"Fetching", "Normalizing">>, <<"Fetching", "Archiving">>,
     <<"Fetching", "Failed">>,
     <<"Normalizing", "Deduplicating">>, <<"Normalizing", "Failed">>,
     <<"Deduplicating", "Archiving">>, <<"Deduplicating", "Fetching">>,
     <<"Deduplicating", "Failed">>,
     <<"Archiving", "Fetching">>, <<"Archiving", "Done">>,
     <<"Archiving", "Failed">>}

(* C13 as amended: a run passes Idle, Extracting and Ranking once, in that *)
(* order, and then takes the ranked candidates one at a time.  A candidate *)
(* that is fetched goes through Fetching, Normalizing, Deduplicating and   *)
(* Archiving in that order, skipping none: it leaves after Fetching when   *)
(* the download fails and after Deduplicating when it is a duplicate, and  *)
(* the run then returns to Fetching for the next candidate.  After the     *)
(* last candidate the archive is closed (Archiving) and the run is Done.   *)
(* Done and Failed are the only final stages; Failed is entered from       *)
(* Extracting, from Normalizing, or between two candidates.                *)
C13_StagesPerCandidate ==
    /\ stages[1] = "Idle"
    /\ \A k \in 1..(Len(stages) - 1) : <<stages[k], stages[k + 1]>> \in StageSteps
    /\ \A k \in 1..Len(stages) :
           \A n \in 1..Len(stages) :
               (k # n /\ stages[k] = stages[n]) => StageNo(stages[k]) \in 4..7
    /\ (pc = "Idle") = (stages = <<"Idle">>)
    /\ (pc = "Done") = (stages[Len(stages)] = "Done")
    /\ (pc = "Failed") = (stages[Len(stages)] = "Failed")
    /\ pc = "Done" => stages[Len(stages) - 1] = "Archiving"

\* A finished run that, after writing one candidate, went back to Fetching
\* for the next, which turned out a duplicate.
C13_Witness ==
    /\ pc = "Done"
    /\ \E k \in 1..(Len(stages) - 2) :
           /\ stages[k] = "Archiving"
           /\ stages[k + 1] = "Fetching"
    /\ \E k \in 1..(Len(stages) - 2) :
           /\ stages[k] = "Deduplicating"
           /\ stages[k + 1] = "Archiving"
           /\ stages[k + 2] = "Done"
    /\ saved < attempted

----------------------------------------------------------------------------
\* The frame holds every row of the photo sheet that has a URL, once, with
\* the cells of that row.
FrameIsSurvivingRows ==
    /\ {photos[j].idx : j \in 1..Len(photos)} = SurvivingRows
    /\ Len(photos) = Cardinality(SurvivingRows)
    /\ \A j \in 1..Len(photos) :
           /\ photos[j].pid = book.photos[photos[j].idx].pid
           /\ photos[j].url = book.photos[photos[j].idx].url

\* (product id, type_rank) of row j of the frame; a label that is unknown
\* or no text has type_rank 99.
GroupKey(j) ==
    <<PidOrder(photos[j].pid)[1], PidOrder(photos[j].pid)[2],
      IF photos[j].type \in {"video", "", NaNType} THEN 99
      ELSE RankType(photos[j].type)>>

\* The sequence number of row j is a real one.
HasSeq(j) == photos[j].photoid >= 0

\* C14 as claimed: the frame is the surviving rows in sheet order, stably
\* sorted by (product id, type_rank, sequence_rank), a missing sequence
\* number ranking after every real one.
C14_Claimed_MissingSequenceLast ==
    pc \in {"Loop", "Done"} =>
        /\ FrameIsSurvivingRows
        /\ \A j, k \in 1..Len(photos) :
               j < k =>
                   /\ ~LexLess(GroupKey(k), GroupKey(j))
                   /\ GroupKey(j) = GroupKey(k) =>
                          /\ ~(HasSeq(k) /\ ~HasSeq(j))
                          /\ (HasSeq(j) /\ HasSeq(k)) =>
                                 photos[j].photoid <= photos[k].photoid
                          /\ (HasSeq(j) = HasSeq(k)
                              /\ photos[j].photoid = photos[k].photoid) =>
                                 photos[j].idx < photos[k].idx

\* sequence_rank as the code computes it: the number, 10^9 without one.
SeqRank(j) == IF HasSeq(j) THEN photos[j].photoid ELSE 1000000000

(* C14 as amended: the frame is the surviving rows in sheet order, stably  *)
(* sorted ascending by (product id, type_rank, sequence_rank), where an    *)
(* unknown or non-text label has type_rank 99 and a missing or non-numeric *)
(* sequence number has sequence_rank 10^9: it ranks after every sequence   *)
(* number below 10^9, level with 10^9 and before every larger one.  Rows   *)
(* of identical key keep their sheet order and no row with a URL is        *)
(* dropped.                                                                *)
C14_StableSortWithSentinel ==
    pc \in {"Loop", "Done"} =>
        /\ FrameIsSurvivingRows
        /\ \A j, k \in 1..Len(photos) :
               j < k =>
                   /\ ~LexLess(GroupKey(k), GroupKey(j))
                   /\ GroupKey(j) = GroupKey(k) =>
                          /\ SeqRank(j) <= SeqRank(k)
                          /\ SeqRank(j) = SeqRank(k) =>
                                 photos[j].idx < photos[k].idx

\* A frame of three rows in which sorting moved a row forward and a row
\* without sequence number stands before a row of the same product and
\* type whose number is above 10^9.
C14_Witness ==
    /\ pc = "Loop"
    /\ Len(photos) = 3
    /\ \E j, k \in 1..Len(photos) : j < k /\ photos[j].idx > photos[k].idx
    /\ \E j, k \in 1..Len(photos) :
           /\ j < k /\ GroupKey(j) = GroupKey(k)
           /\ ~HasSeq(j) /\ HasSeq(k)

----------------------------------------------------------------------------
(* The normalizer of the specification: every character that is no digit  *)
(* is dropped, then the leading zeros; a text of zeros only is kept, a     *)
(* text without digits is rejected (the empty text here).                  *)
RECURSIVE DropLeadingZeros(_)
DropLeadingZeros(s) ==
    IF s = <<>> THEN <<>>
    ELSE IF Head(s) = "0" THEN DropLeadingZeros(Tail(s))
    ELSE s

Normalize(raw) ==
    LET digits == SelectSeq(raw, LAMBDA c : c \in Digit)
    IN  IF DropLeadingZeros(digits) = <<>> THEN digits
        ELSE DropLeadingZeros(digits)

\* The raw tokens handed to the merge: those typed in the textarea, then
\* the cells of the sku column as text.
RawList ==
    sku_tokens.toks \o
        (IF uploaded_file.kind = "sheet"
         THEN [i \in 1..Len(uploaded_file.sku) |-> AsStr(uploaded_file.sku[i])]
         ELSE <<>>)

\* out holds each text of list once, at the place of its first occurrence.
OnceInFirstSeenOrder(out, list) ==
    /\ {out[i] : i \in 1..Len(out)} = {list[i] : i \in 1..Len(list)}
    /\ \A i, j \in 1..Len(out) : i # j => out[i] # out[j]
    /\ \A i, j \in 1..Len(out) :
           i < j =>
               \E m \in 1..Len(list) :
                   /\ list[m] = out[i]
                   /\ \A n \in 1..Len(list) : list[n] = out[j] => m < n

\* The merge of the call went through: no upload, or a readable workbook
\* with a sku column.
MergeRan ==
    sku_pc = "returned" /\
    (uploaded_file.kind = "none"
     \/ (uploaded_file.kind = "sheet" /\ "sku" \in uploaded_file.columns))

\* C16 as claimed: the merged list holds each normalized code (digits only,
\* leading zeros trimmed) once, in the order of first occurrence.  Sheets
\* with an empty sku cell are left aside: an empty cell is no token.
C16_Claimed_NormalizedOnce ==
    (MergeRan /\ dedup_on /\ \A i \in 1..Len(RawList) : RawList[i] # AsStr(NaNCell)) =>
        LET codes == [i \in 1..Len(RawList) |-> Normalize(RawList[i])]
        IN  OnceInFirstSeenOrder(skus, SelectSeq(codes, LAMBDA c : c # <<>>))

(* C16 as amended: with duplicate removal switched on, the merged list     *)
(* holds each token once, in the order of first occurrence, tokens being   *)
(* compared as text after surrounding whitespace is trimmed and nothing    *)
(* else: " 7 " and "7" collapse, "BE07", "07" and "7" stay three entries.  *)
(* With the switch off the merged list keeps its repeats; a workbook that  *)
(* cannot be read or has no sku column gives the empty list; an empty cell *)
(* of the sku column counts as the token "nan".                            *)
C16_TrimmedTokensOnce ==
    LET trimmed == [i \in 1..Len(RawList) |-> Strip(RawList[i])]
        tokens == SelectSeq(trimmed, LAMBDA c : c # <<>>)
    IN  /\ (MergeRan /\ dedup_on) => OnceInFirstSeenOrder(skus, tokens)
        /\ (MergeRan /\ ~dedup_on) => skus = tokens
        /\ (sku_pc = "returned" /\ ~MergeRan) => skus = <<>>

\* A merge that collapsed the cell " 7 " with the token "7" typed before it
\* and kept "BE07" and "07" beside it.
C16_Witness ==
    /\ MergeRan /\ dedup_on
    /\ sku_tokens.toks = <<<<"B", "E", "0", "7">>, <<"0", "7">>, <<"7">>>>
    /\ uploaded_file.kind = "sheet"
    /\ uploaded_file.sku = <<<<" ", "7", " ">>>>
    /\ skus = sku_tokens.toks

----------------------------------------------------------------------------
\* Row r of a report is entry e of a missing log: the same product id,
\* code, URL and reason, a code or URL that is None or empty being an empty
\* cell of the sheet.
SameCell(c, v) == IF v \in {None, <<>>} THEN c = NaNCell ELSE c = v
SameEntry(r, e) ==
    /\ r.reason = e.reason
    /\ SameCell(r.url, e.url)
    /\ SameCell(r.cnk, e.cnk)
    /\ r.pid = e.pid

(* C17: when the NL and the FR pass of a click have both completed, the    *)
(* combined missing report exists and holds exactly the rows of the two    *)
(* missing logs: first those of the NL pass, tagged NL, then those of the  *)
(* FR pass, tagged FR, none lost and none twice.                           *)
C17_CombinedReportIsBothLogs ==
    /\ (ui = "Ready" /\ {"nl", "fr"} \subseteq DOMAIN origin) =>
           "missing_all" \in DOMAIN missing_excels
    /\ "missing_all" \in DOMAIN missing_excels =>
           /\ {"nl", "fr"} \subseteq DOMAIN origin
           /\ LET all == missing_excels["missing_all"]
                  nl == origin["nl"].missing
                  fr == origin["fr"].missing
              IN  /\ Len(all) = Len(nl) + Len(fr)
                  /\ \A i \in 1..Len(nl) :
                         all[i].Lang = "NL" /\ SameEntry(all[i], nl[i])
                  /\ \A i \in 1..Len(fr) :
                         /\ all[Len(nl) + i].Lang = "FR"
                         /\ SameEntry(all[Len(nl) + i], fr[i])

\* A combined report of three rows: one of the NL pass and two of the FR
\* pass, one of them with an empty URL cell.
C17_Witness ==
    /\ ui = "Ready"
    /\ "missing_all" \in DOMAIN missing_excels
    /\ Len(missing_excels["missing_all"]) = 3
    /\ missing_excels["missing_all"][1].Lang = "NL"
    /\ missing_excels["missing_all"][2].Lang = "FR"
    /\ missing_excels["missing_all"][2].url = NaNCell
    /\ Len(origin["nl"].missing) = 1

----------------------------------------------------------------------------
\* The key of the missing report of a language.
MissingKey(l) == IF l = "nl" THEN "missing_nl" ELSE "missing_fr"

(* C19: every archive and missing report in the session state was built   *)
(* by the most recent click from the export the session holds for that     *)
(* language.  While a click is being processed, and after a submission,    *)
(* the session holds no archive and no report; the combined archive and    *)
(* report exist only if the NL and the FR pass of that click both          *)
(* returned.                                                               *)
C19_OutputsFromCurrentExports ==
    /\ \A l \in {"nl", "fr"} :
           /\ l \in DOMAIN photo_outputs =>
                  /\ l \in DOMAIN exports /\ l \in DOMAIN origin
                  /\ origin[l].book = exports[l]
                  /\ photo_outputs[l] = lang_zips[l]
           /\ MissingKey(l) \in DOMAIN missing_excels =>
                  /\ l \in DOMAIN exports /\ l \in DOMAIN origin
                  /\ origin[l].book = exports[l]
                  /\ missing_excels[MissingKey(l)] = lang_missing[l]
    /\ "all" \in DOMAIN photo_outputs =>
           /\ {"nl", "fr"} \subseteq DOMAIN lang_zips
           /\ photo_outputs["all"] = lang_zips["nl"] \o lang_zips["fr"]
    /\ "missing_all" \in DOMAIN missing_excels =>
           {"nl", "fr"} \subseteq DOMAIN lang_missing
    /\ ui # "Ready" => photo_outputs = EmptyDict /\ missing_excels = EmptyDict
    /\ ui = "Ready" =>
           /\ DOMAIN photo_outputs =
                  (DOMAIN lang_zips) \cup
                  (IF {"nl", "fr"} \subseteq DOMAIN lang_zips THEN {"all"} ELSE {})
           /\ DOMAIN missing_excels =
                  {MissingKey(l) : l \in DOMAIN lang_missing} \cup
                  (IF {"nl", "fr"} \subseteq DOMAIN lang_missing
                   THEN {"missing_all"} ELSE {})
    /\ DOMAIN exports = {} =>
           photo_outputs = EmptyDict /\ missing_excels = EmptyDict

\* The session holds exports of both languages, the NL one a workbook that
\* processes, but only the FR archive: the last click was for FR alone.
C19_Witness ==
    /\ ui = "Ready"
    /\ DOMAIN exports = {"nl", "fr"}
    /\ Len(exports["nl"].photos) = 3
    /\ exports["nl"].photos[3].url = UrlTimeout
    /\ DOMAIN photo_outputs = {"fr"}
    /\ Len(photo_outputs["fr"]) = 1
    /\ DOMAIN missing_excels = {"missing_fr"}

----------------------------------------------------------------------------
\* The requests for a product page, a media page or an image.
DataRequests == {i \in 1..Len(api_reqs) :
                    api_reqs[i].kind \in {"product", "media", "image"}}

(* C20: search_product, get_image_url and download_image issue a product,  *)
(* media or image request only while logged_in is true.  Called while      *)
(* logged_in is false, the method first attempts login; when that login    *)
(* returns False the method returns its failure value, None or             *)
(* (False, None, None), has issued no product, media or image request and  *)
(* leaves logged_in false.                                                 *)
C20_RequestsOnlyWhileLoggedIn ==
    /\ \A i \in DataRequests : api_reqs[i].logged_in
    /\ (api_method # "none" /\ ~api_entry /\ api_reqs # <<>>) =>
           api_reqs[1].kind = "login"
    /\ (api_method # "none" /\ ~api_entry /\ DataRequests # {}) =>
           login_ret = "True"
    /\ login_ret = "False" =>
           /\ api_pc = "idle"
           /\ api_ret = Failure(api_method)
           /\ DataRequests = {}
           /\ ~logged_in
    /\ login_ret = "raised" => DataRequests = {} /\ ~logged_in

\* download_image was called while not logged in, its login went through
\* the three requests and failed, and it returned (False, None, None).
C20_Witness ==
    /\ api_method = "download_image"
    /\ ~api_entry
    /\ login_ret = "False"
    /\ Len(api_reqs) = 3
    /\ api_reqs[3].kind = "home"
    /\ api_ret = <<"False">> \o None \o None
    /\ api_pc = "idle"
    /\ api_calls = 2

====
